---- MODULE Spec2Model ----
(***************************************************************************)
(* A model of preprocessing/preprocessing/utils.py: the dataset            *)
(* abstraction BaseTextCategorizationDataset, its CSV-backed subclass      *)
(* LocalTextCategorizationDataset and the _SimpleSequence wrapper.         *)
(*                                                                         *)
(* Conventions.                                                            *)
(*  - A CSV file is a sequence of rows [tag_position, tag_name]; a row is  *)
(*    identified by its position in the file (its pandas index label, its  *)
(*    post_id and its title in the fixtures of tests/test_utils.py).       *)
(*  - A data frame derived from the file is the sequence of the row        *)
(*    positions it keeps.                                                  *)
(*  - train_ratio is a rational <<numerator, denominator>> with a positive *)
(*    denominator; numpy.floor of a product or quotient is the exact floor *)
(*    of that rational (the floating-point rounding of the product is not  *)
(*    modelled).                                                           *)
(*  - A Python dict is a function; a Python list or array is a sequence;   *)
(*    Python's 0-based position p is the sequence's element p + 1.         *)
(***************************************************************************)
EXTENDS Integers, Sequences, FiniteSets, TLC

VARIABLES
    mocked,                 \* TRUE: a base-class object whose abstract methods are mocks
    num_samples,            \* the mocked return value of _get_num_samples
    file,                   \* what pandas.read_csv returns for `filename`
    min_samples_per_label,  \* constructor / load_dataset argument
    batch_size,             \* self.batch_size
    train_ratio,            \* self.train_ratio, <<numerator, denominator>>
    status,                 \* "new", "ok" or the exception that ended the constructor
    dataset,                \* self._dataset
    label_list,             \* self._label_list (or the mocked _get_label_list)
    x_train, x_test,        \* the split of the 'title' column
    y_train, y_test,        \* the split of the one-hot labels
    train_batch_index,      \* self.train_batch_index
    test_batch_index,       \* self.test_batch_index
    ret,                    \* the value the last call returned
    train_returned,         \* the batches get_train_batch returned, in call order
    test_returned,          \* the batches get_test_batch returned, in call order
    pc, local_i, local_next,\* per caller: position in get_train_batch and its locals
    caller_ret, caller_calls\* per caller: the batch it received, its finished calls

vars == <<mocked, num_samples, file, min_samples_per_label, batch_size,
          train_ratio, status, dataset, label_list, x_train, x_test,
          y_train, y_test, train_batch_index, test_batch_index, ret,
          train_returned, test_returned, pc, local_i, local_next,
          caller_ret, caller_calls>>

(***************************************************************************)
(* Bounds of the model.                                                    *)
(***************************************************************************)
MaxRows == 5          \* rows of a CSV file
MaxSamples == 6       \* the mocked sample count of a base-class object
MaxLabels == 3        \* length of a mocked label list
MaxBatchSize == 3     \* batch_size
MaxMinSamples == 2    \* min_samples_per_label handed to load_dataset alone
MaxCalls == 4         \* batch retrievals on one dataset
MaxIdx == 1           \* the index handed to _SimpleSequence.__getitem__
MaxSmallRows == 4     \* rows of a CSV file read through a sequence or by two callers
MaxCallerCalls == 1   \* get_train_batch calls of one concurrent caller

TagNames == {"tag_a", "tag_b"}
Callers == {"c1", "c2"}

\* train_ratio values: 0, 1/2, 3/5, 4/5 (the default 0.8), 1, -1/2
Ratios == {<<0, 1>>, <<1, 2>>, <<3, 5>>, <<4, 5>>, <<1, 1>>, <<-1, 2>>}
\* the train_ratio values a file-backed dataset is constructed with
LocalRatios == {<<0, 1>>, <<1, 2>>, <<3, 5>>, <<1, 1>>}
\* the min_samples_per_label values a file-backed dataset is constructed with
LocalMinSamples == {1, 2}

\* The rational n * r, and n / d, for an integer n
Times(n, r) == <<n * r[1], r[2]>>
Over(n, d) == <<n, d>>
LessThanOne(r) == r[1] < r[2]

Min(a, b) == IF a < b THEN a ELSE b
MaxOf(S) == CHOOSE m \in S : \A k \in S : k <= m
Range(s) == {s[k] : k \in 1..Len(s)}
SeqsUpTo(S, n) == UNION {[1..k -> S] : k \in 0..n}

(***************************************************************************)
(* integer_floor                                                           *)
(***************************************************************************)
integer_floor(float_value) == float_value[1] \div float_value[2]

(***************************************************************************)
(* BaseTextCategorizationDataset                                           *)
(***************************************************************************)
_get_label_list == label_list

get_num_labels == Len(_get_label_list)

_get_num_samples == IF mocked THEN num_samples ELSE Len(dataset)

_get_num_train_samples == integer_floor(Times(_get_num_samples, train_ratio))

\* A plausible slip: the test count floored on its own from (1 - train_ratio)
test_samples_independent_floor ==
    integer_floor(Times(_get_num_samples,
                        <<train_ratio[2] - train_ratio[1], train_ratio[2]>>))

_get_num_test_samples ==
    integer_floor(Over(_get_num_samples - _get_num_train_samples, 1))

\* A plausible slip: the batches counted with a ceiling, a remainder batch
\* included
num_train_batches_ceiling ==
    0 - integer_floor(Over(0 - _get_num_train_samples, batch_size))

_get_num_train_batches == integer_floor(Over(_get_num_train_samples, batch_size))

_get_num_test_batches == integer_floor(Over(_get_num_test_samples, batch_size))

\* A plausible slip: enumerate(..., 1), indices starting at 1
index_to_label_from_one ==
    [index \in 1..Len(_get_label_list) |-> _get_label_list[index]]

get_index_to_label_map ==
    [index \in 0..(Len(_get_label_list) - 1) |-> _get_label_list[index + 1]]

\* The dict comprehension visits the items in index order; a later item
\* with the same label replaces the earlier one.
get_label_to_index_map ==
    LET m == get_index_to_label_map
    IN  [label \in {m[index] : index \in DOMAIN m} |->
            MaxOf({index \in DOMAIN m : m[index] = label})]

\* to_indexes raises KeyError for a label that is no key of the map
to_indexes_raises(labels) ==
    \E k \in 1..Len(labels) : labels[k] \notin DOMAIN get_label_to_index_map

to_indexes(labels) ==
    LET label_to_index_map == get_label_to_index_map
    IN  [k \in 1..Len(labels) |-> label_to_index_map[labels[k]]]

(***************************************************************************)
(* LocalTextCategorizationDataset.load_dataset                             *)
(***************************************************************************)
\* df[df['tag_position'] == position], df the whole file
filter_tag_position(position) ==
    SelectSeq([r \in 1..Len(file) |-> r],
              LAMBDA r : file[r].tag_position = position)

\* df['tag_name'].value_counts()[tag]
value_counts(df, tag) ==
    Cardinality({k \in 1..Len(df) : file[df[k]].tag_name = tag})

\* df[df['tag_name'].isin(tag_counts[tag_counts >= x].index)]
filter_tags_with_less_than_x_samples(df, x) ==
    SelectSeq(df, LAMBDA r : value_counts(df, file[r].tag_name) >= x)

\* A plausible slip: the two filters piped in the other order, so that the
\* tags are counted over the whole file
load_dataset_counts_whole_file(min_samples) ==
    LET whole == [r \in 1..Len(file) |-> r]
        kept == filter_tags_with_less_than_x_samples(whole, min_samples)
    IN  SelectSeq(kept, LAMBDA r : file[r].tag_position = 0)

\* The file always carries the five expected columns: the column assertion
\* of load_dataset never fires in this model.
load_dataset(min_samples) ==
    filter_tags_with_less_than_x_samples(filter_tag_position(0), min_samples)

(***************************************************************************)
(* LocalTextCategorizationDataset.__init__                                 *)
(***************************************************************************)
\* self._dataset['tag_name'].unique().tolist(): first-seen order
RECURSIVE unique(_)
unique(tags) ==
    IF tags = <<>> THEN <<>>
    ELSE LET front == unique(SubSeq(tags, 1, Len(tags) - 1))
             last == tags[Len(tags)]
         IN  IF last \in Range(front) THEN front ELSE Append(front, last)

tag_name_column(df) == [k \in 1..Len(df) |-> file[df[k]].tag_name]

\* keras to_categorical: one row per index, a 1 at the index and 0 elsewhere
to_categorical(y, num_classes) ==
    [k \in 1..Len(y) |-> [c \in 1..num_classes |-> IF c = y[k] + 1 THEN 1 ELSE 0]]

RECURSIVE PermsOf(_)
PermsOf(S) ==
    IF S = {} THEN {<<>>}
    ELSE UNION {{<<e>> \o p : p \in PermsOf(S \ {e})} : e \in S}

\* sklearn's stratified train_test_split raises ValueError when a class has
\* fewer than two members or a side of the split has fewer members than
\* there are classes.
train_test_split_raises(df, train_size) ==
    LET classes == Range(tag_name_column(df))
    IN  \/ \E tag \in classes : value_counts(df, tag) < 2
        \/ train_size < Cardinality(classes)
        \/ Len(df) - train_size < Cardinality(classes)

\* The shuffled splits train_test_split may return: any arrangement of the
\* rows, the first train_size of them the train side (the proportions the
\* stratification keeps are not modelled: every arrangement is allowed).
train_test_split(df, train_size) ==
    {[train |-> SubSeq(p, 1, train_size),
      test |-> SubSeq(p, train_size + 1, Len(p))] : p \in PermsOf(Range(df))}

\* the rows of the one-hot array that go with the rows of a split
one_hot_rows(rows) ==
    to_categorical(to_indexes([k \in 1..Len(rows) |-> file[rows[k]].tag_name]),
                   Len(_get_label_list))

\* What ends __init__: the exception raised, or "ok". A plausible slip: the
\* assertion on the test batches left out
init_outcome_without_test_assert ==
    IF ~LessThanOne(train_ratio) THEN "AssertionError"
    ELSE IF batch_size = 0 THEN "ZeroDivisionError"
    ELSE IF ~(_get_num_train_batches > 0) THEN "AssertionError"
    ELSE IF train_test_split_raises(dataset, _get_num_train_samples) THEN "ValueError"
    ELSE "ok"

\* What ends __init__, read once self._dataset is set: the exception
\* raised, or "ok"
init_outcome ==
    IF ~LessThanOne(train_ratio) THEN "AssertionError"
    ELSE IF batch_size = 0 THEN "ZeroDivisionError"
    ELSE IF ~(_get_num_train_batches > 0) THEN "AssertionError"
    ELSE IF ~(_get_num_test_batches > 0) THEN "AssertionError"
    ELSE IF train_test_split_raises(dataset, _get_num_train_samples) THEN "ValueError"
    ELSE "ok"

NoBatch == [x |-> <<>>, y |-> <<>>]
NoRet == [op |-> "none"]

CallersUntouched == UNCHANGED <<pc, local_i, local_next, caller_ret, caller_calls>>
ArgumentsUntouched ==
    UNCHANGED <<mocked, num_samples, file, min_samples_per_label, batch_size, train_ratio>>
SplitUntouched ==
    UNCHANGED <<status, dataset, label_list, x_train, x_test, y_train, y_test>>

\* LocalTextCategorizationDataset(filename, batch_size, train_ratio,
\* min_samples_per_label), preprocess_text left at its default, the identity
Construct ==
    /\ ~mocked
    /\ status = "new"
    /\ ArgumentsUntouched
    /\ CallersUntouched
    /\ UNCHANGED <<ret, train_returned, test_returned>>
    /\ dataset' = IF LessThanOne(train_ratio)
                  THEN load_dataset(min_samples_per_label) ELSE <<>>
    /\ status' = init_outcome'
    /\ train_batch_index' = 0
    /\ test_batch_index' = 0
    /\ IF status' = "ok"
       THEN /\ label_list' = unique(tag_name_column(dataset'))
            /\ \E split \in train_test_split(dataset', _get_num_train_samples') :
                  /\ x_train' = split.train
                  /\ x_test' = split.test
                  /\ y_train' = one_hot_rows(split.train)'
                  /\ y_test' = one_hot_rows(split.test)'
       ELSE /\ label_list' = <<>>
            /\ x_train' = <<>>
            /\ x_test' = <<>>
            /\ y_train' = <<>>
            /\ y_test' = <<>>

(***************************************************************************)
(* get_train_batch, get_test_batch                                         *)
(***************************************************************************)
\* s[start_idx:end_idx] for 0 <= start_idx <= end_idx: the slice stops at
\* the end of s
Slice(s, start_idx, end_idx) == SubSeq(s, start_idx + 1, Min(end_idx, Len(s)))

\* the default preprocess_text, lambda x: x
preprocess_text(x) == x

\* A plausible slip: the slice taken one sample further
train_batch_one_more(i) ==
    LET start_idx == i * batch_size
        end_idx == (i + 1) * batch_size + 1
    IN  [x |-> preprocess_text(Slice(x_train, start_idx, end_idx)),
         y |-> Slice(y_train, start_idx, end_idx)]

\* (next_x, next_y) of get_train_batch for the cursor value i
train_batch(i) ==
    LET start_idx == i * batch_size
        end_idx == (i + 1) * batch_size
    IN  [x |-> preprocess_text(Slice(x_train, start_idx, end_idx)),
         y |-> Slice(y_train, start_idx, end_idx)]

\* (next_x, next_y) of get_test_batch for the cursor value i
test_batch(i) ==
    LET start_idx == i * batch_size
        end_idx == (i + 1) * batch_size
    IN  [x |-> preprocess_text(Slice(x_test, start_idx, end_idx)),
         y |-> Slice(y_test, start_idx, end_idx)]

\* A plausible slip: the cursor wrapped at the number of samples of the
\* split instead of its number of batches
next_train_batch_index_wraps_at_samples(index) ==
    (index + 1) % _get_num_train_samples

\* A plausible slip: the cursor never wrapped
next_train_batch_index_no_wrap(index) == index + 1

\* (index + 1) % self._get_num_train_batches()
next_train_batch_index(index) == (index + 1) % _get_num_train_batches

\* (index + 1) % self._get_num_test_batches()
next_test_batch_index(index) == (index + 1) % _get_num_test_batches

Retrievals == Len(train_returned) + Len(test_returned)

get_train_batch ==
    /\ status = "ok"
    /\ Retrievals < MaxCalls
    /\ LET i == train_batch_index
       IN  /\ train_returned' = Append(train_returned, train_batch(i))
           /\ train_batch_index' = next_train_batch_index(train_batch_index)
    /\ ArgumentsUntouched
    /\ SplitUntouched
    /\ CallersUntouched
    /\ UNCHANGED <<test_batch_index, test_returned, ret>>

get_test_batch ==
    /\ status = "ok"
    /\ Retrievals < MaxCalls
    /\ LET i == test_batch_index
       IN  /\ test_returned' = Append(test_returned, test_batch(i))
           /\ test_batch_index' = next_test_batch_index(test_batch_index)
    /\ ArgumentsUntouched
    /\ SplitUntouched
    /\ CallersUntouched
    /\ UNCHANGED <<train_batch_index, train_returned, ret>>

(***************************************************************************)
(* A file-backed dataset used by one caller                                *)
(***************************************************************************)
\* The files of tests/test_utils.py, in their general shape: the rows of a
\* tag follow each other and carry tag_position 0 (na rows of tag_a, then
\* nb rows of tag_b); ns rows of tag_b with tag_position 1 end the file.
FixtureFile(na, nb, ns) ==
    [r \in 1..(na + nb + ns) |->
        IF r <= na THEN [tag_position |-> 0, tag_name |-> "tag_a"]
        ELSE IF r <= na + nb THEN [tag_position |-> 0, tag_name |-> "tag_b"]
        ELSE [tag_position |-> 1, tag_name |-> "tag_b"]]

Fixtures(max_rows) ==
    {FixtureFile(c[1], c[2], c[3]) :
        c \in {d \in (0..max_rows) \X (0..max_rows) \X (0..max_rows) :
                  d[1] + d[2] + d[3] <= max_rows}}

NotMocked == mocked = FALSE /\ num_samples = 0

NotConstructed ==
    /\ status = "new"
    /\ dataset = <<>>
    /\ label_list = <<>>
    /\ x_train = <<>>
    /\ x_test = <<>>
    /\ y_train = <<>>
    /\ y_test = <<>>
    /\ train_batch_index = 0
    /\ test_batch_index = 0
    /\ ret = NoRet
    /\ train_returned = <<>>
    /\ test_returned = <<>>

NoCallers ==
    /\ pc = [c \in Callers |-> "idle"]
    /\ local_i = [c \in Callers |-> 0]
    /\ local_next = [c \in Callers |-> 0]
    /\ caller_ret = [c \in Callers |-> NoBatch]
    /\ caller_calls = [c \in Callers |-> 0]

LocalArguments(max_rows) ==
    /\ file \in Fixtures(max_rows)
    /\ min_samples_per_label \in LocalMinSamples
    /\ batch_size \in -1..MaxBatchSize
    /\ train_ratio \in LocalRatios

Init ==
    /\ NotMocked
    /\ LocalArguments(MaxRows)
    /\ NotConstructed
    /\ NoCallers

Next ==
    \/ Construct
    \/ get_train_batch
    \/ get_test_batch

Spec == Init /\ [][Next]_vars

(***************************************************************************)
(* A base-class object with mocked _get_num_samples and _get_label_list,   *)
(* as in TestBaseTextCategorizationDataset                                 *)
(***************************************************************************)
InitBase ==
    /\ mocked = TRUE
    /\ num_samples \in 0..MaxSamples
    /\ label_list \in SeqsUpTo(TagNames, MaxLabels)
    /\ batch_size \in 1..MaxBatchSize
    \* BaseTextCategorizationDataset.__init__ asserts train_ratio < 1.0
    /\ train_ratio \in {r \in Ratios : LessThanOne(r)}
    /\ file = <<>>
    /\ min_samples_per_label = 0
    /\ status = "ok"
    /\ dataset = <<>>
    /\ x_train = <<>>
    /\ x_test = <<>>
    /\ y_train = <<>>
    /\ y_test = <<>>
    /\ train_batch_index = 0
    /\ test_batch_index = 0
    /\ ret = NoRet
    /\ train_returned = <<>>
    /\ test_returned = <<>>
    /\ NoCallers

Returns(op, val) ==
    /\ ret' = [op |-> op, val |-> val]
    /\ ArgumentsUntouched
    /\ SplitUntouched
    /\ CallersUntouched
    /\ UNCHANGED <<train_batch_index, test_batch_index, train_returned, test_returned>>

Call_get_num_train_samples ==
    mocked /\ Returns("_get_num_train_samples", _get_num_train_samples)

Call_get_num_test_samples ==
    mocked /\ Returns("_get_num_test_samples", _get_num_test_samples)

Call_get_num_train_batches ==
    mocked /\ Returns("_get_num_train_batches", _get_num_train_batches)

Call_get_num_test_batches ==
    mocked /\ Returns("_get_num_test_batches", _get_num_test_batches)

Call_get_index_to_label_map ==
    mocked /\ Returns("get_index_to_label_map", get_index_to_label_map)

Call_get_label_to_index_map ==
    mocked /\ Returns("get_label_to_index_map", get_label_to_index_map)

Call_to_indexes ==
    /\ mocked
    /\ \E labels \in SeqsUpTo(TagNames, 2) :
          IF to_indexes_raises(labels)
          THEN Returns("to_indexes", "KeyError")
          ELSE Returns("to_indexes", to_indexes(labels))

NextBase ==
    \/ Call_get_num_train_samples
    \/ Call_get_num_test_samples
    \/ Call_get_num_train_batches
    \/ Call_get_num_test_batches
    \/ Call_get_index_to_label_map
    \/ Call_get_label_to_index_map
    \/ Call_to_indexes

SpecBase == InitBase /\ [][NextBase]_vars

(***************************************************************************)
(* The static method load_dataset on its own, as in                        *)
(* test_load_dataset_returns_expected_data                                 *)
(***************************************************************************)
Rows == [tag_position : {0, 1}, tag_name : TagNames]

InitLoad ==
    /\ NotMocked
    /\ file \in SeqsUpTo(Rows, MaxRows)
    /\ min_samples_per_label \in 0..MaxMinSamples
    /\ batch_size = 1
    /\ train_ratio = <<4, 5>>
    /\ NotConstructed
    /\ NoCallers

Call_load_dataset ==
    /\ ~mocked
    /\ ret = NoRet
    /\ Returns("load_dataset", load_dataset(min_samples_per_label))

NextLoad == Call_load_dataset

SpecLoad == InitLoad /\ [][NextLoad]_vars

(***************************************************************************)
(* _SimpleSequence over a file-backed dataset: get_train_sequence(),       *)
(* get_test_sequence(), len() and element access                           *)
(***************************************************************************)
SequenceStepFrame ==
    /\ ArgumentsUntouched
    /\ SplitUntouched
    /\ CallersUntouched
    /\ UNCHANGED <<train_returned, test_returned>>

\* A plausible slip: element idx of the train sequence read as batch idx of
\* the split, the cursor left alone
train_sequence_getitem_by_index ==
    /\ status = "ok"
    /\ \E idx \in 0..MaxIdx :
          ret' = [op |-> "__getitem__", split |-> "train", idx |-> idx,
                  batch |-> train_batch(idx)]
    /\ SequenceStepFrame
    /\ UNCHANGED <<train_batch_index, test_batch_index>>

\* get_train_sequence()[idx]: __getitem__ returns self.get_batch_method(),
\* here get_train_batch, whatever idx is
train_sequence_getitem ==
    /\ status = "ok"
    /\ \E idx \in 0..MaxIdx :
          ret' = [op |-> "__getitem__", split |-> "train", idx |-> idx,
                  batch |-> train_batch(train_batch_index)]
    /\ train_batch_index' = next_train_batch_index(train_batch_index)
    /\ SequenceStepFrame
    /\ UNCHANGED test_batch_index

\* get_test_sequence()[idx]: __getitem__ returns get_test_batch()
test_sequence_getitem ==
    /\ status = "ok"
    /\ \E idx \in 0..MaxIdx :
          ret' = [op |-> "__getitem__", split |-> "test", idx |-> idx,
                  batch |-> test_batch(test_batch_index)]
    /\ test_batch_index' = next_test_batch_index(test_batch_index)
    /\ SequenceStepFrame
    /\ UNCHANGED train_batch_index

\* len(get_train_sequence()): __len__ returns self.num_batches_method()
train_sequence_len ==
    /\ status = "ok"
    /\ ret' = [op |-> "__len__", split |-> "train", val |-> _get_num_train_batches]
    /\ SequenceStepFrame
    /\ UNCHANGED <<train_batch_index, test_batch_index>>

\* len(get_test_sequence())
test_sequence_len ==
    /\ status = "ok"
    /\ ret' = [op |-> "__len__", split |-> "test", val |-> _get_num_test_batches]
    /\ SequenceStepFrame
    /\ UNCHANGED <<train_batch_index, test_batch_index>>

InitSeq ==
    /\ NotMocked
    /\ LocalArguments(MaxSmallRows)
    /\ NotConstructed
    /\ NoCallers

NextSeq ==
    \/ Construct
    \/ train_sequence_getitem
    \/ test_sequence_getitem
    \/ train_sequence_len
    \/ test_sequence_len

SpecSeq == InitSeq /\ [][NextSeq]_vars

(***************************************************************************)
(* Two callers of get_train_batch on one dataset, no lock: a caller may be *)
(* preempted between reading the cursor into i (line 248), reading the     *)
(* cursor again for the update and storing the update (line 261).          *)
(***************************************************************************)
\* A plausible slip: the batch sliced at the cursor as it is when the call
\* returns, not at the local i
caller_batch_from_cursor(c) == train_batch(train_batch_index)

\* next_x, next_y: the slices taken at the local i
caller_batch(c) == train_batch(local_i[c])

CallerStepFrame ==
    /\ ArgumentsUntouched
    /\ SplitUntouched
    /\ UNCHANGED <<test_batch_index, ret, train_returned, test_returned>>

\* i = self.train_batch_index
get_train_batch_read(c) ==
    /\ status = "ok"
    /\ pc[c] = "idle"
    /\ caller_calls[c] < MaxCallerCalls
    /\ local_i' = [local_i EXCEPT ![c] = train_batch_index]
    /\ pc' = [pc EXCEPT ![c] = "sliced"]
    /\ CallerStepFrame
    /\ UNCHANGED <<train_batch_index, local_next, caller_ret, caller_calls>>

\* the right-hand side (self.train_batch_index + 1) % n is evaluated
get_train_batch_load(c) ==
    /\ pc[c] = "sliced"
    /\ local_next' = [local_next EXCEPT ![c] = next_train_batch_index(train_batch_index)]
    /\ pc' = [pc EXCEPT ![c] = "loaded"]
    /\ CallerStepFrame
    /\ UNCHANGED <<train_batch_index, local_i, caller_ret, caller_calls>>

\* self.train_batch_index is assigned; return next_x, next_y
get_train_batch_store(c) ==
    /\ pc[c] = "loaded"
    /\ train_batch_index' = local_next[c]
    /\ caller_ret' = [caller_ret EXCEPT ![c] = caller_batch(c)]
    /\ caller_calls' = [caller_calls EXCEPT ![c] = @ + 1]
    /\ pc' = [pc EXCEPT ![c] = "idle"]
    /\ CallerStepFrame
    /\ UNCHANGED <<local_i, local_next>>

InitConc ==
    /\ NotMocked
    /\ LocalArguments(MaxSmallRows)
    /\ NotConstructed
    /\ NoCallers

NextConc ==
    \/ Construct
    \/ \E c \in Callers : get_train_batch_read(c)
    \/ \E c \in Callers : get_train_batch_load(c)
    \/ \E c \in Callers : get_train_batch_store(c)

SpecConc == InitConc /\ [][NextConc]_vars

(***************************************************************************)
(* Properties of the base-class arithmetic and of the label maps           *)
(***************************************************************************)
\* v is the floor of n * r: v <= n * r < v + 1, stated without division
IsFloorOf(v, n, r) == r[2] * v <= n * r[1] /\ n * r[1] < r[2] * (v + 1)

\* C1: for every sample count >= 0 and every train_ratio < 1,
\* _get_num_train_samples() returns floor(numSamples * train_ratio) and
\* _get_num_test_samples() returns numSamples minus that floor, so the two
\* counts sum to numSamples.
C1_SampleCounts ==
    /\ ret.op = "_get_num_train_samples" =>
          IsFloorOf(ret.val, num_samples, train_ratio)
    /\ ret.op = "_get_num_test_samples" =>
          \E tr \in (0 - num_samples)..num_samples :
              /\ IsFloorOf(tr, num_samples, train_ratio)
              /\ ret.val = num_samples - tr
              /\ tr + ret.val = num_samples

\* C1 witness: the test count was asked for where numSamples * train_ratio
\* is no integer, the case in which a floor of its own would lose a sample
C1_Witness ==
    /\ ret.op = "_get_num_test_samples"
    /\ num_samples > 0
    /\ train_ratio[1] > 0
    /\ (num_samples * train_ratio[1]) % train_ratio[2] # 0

NoDuplicates(l) == \A i, j \in 1..Len(l) : i # j => l[i] # l[j]

\* C5: for a label list without duplicates the two maps are mutual
\* inverses and the indices are exactly 0..num_labels-1 in label-list order.
C5_LabelMapsInverse ==
    (NoDuplicates(label_list) /\ ret.op = "get_label_to_index_map") =>
        LET label_to_index == ret.val
            index_to_label == get_index_to_label_map
        IN  /\ DOMAIN index_to_label = 0..(Len(label_list) - 1)
            /\ \A i \in DOMAIN index_to_label : index_to_label[i] = label_list[i + 1]
            /\ DOMAIN label_to_index = Range(label_list)
            /\ \A L \in DOMAIN label_to_index :
                  /\ label_to_index[L] \in DOMAIN index_to_label
                  /\ index_to_label[label_to_index[L]] = L
            /\ \A i \in DOMAIN index_to_label :
                  label_to_index[index_to_label[i]] = i

\* C5 witness: the label -> index map was built from two distinct labels
C5_Witness ==
    /\ ret.op = "get_label_to_index_map"
    /\ NoDuplicates(label_list)
    /\ Len(label_list) >= 2

(***************************************************************************)
(* Properties of load_dataset                                              *)
(***************************************************************************)
\* the rows of the file with tag_position 0 and the given tag
RowsAtZero(tag) ==
    {r \in 1..Len(file) : file[r].tag_position = 0 /\ file[r].tag_name = tag}

\* the rows of the file with the given tag, whatever their tag_position
RowsOfTag(tag) == {r \in 1..Len(file) : file[r].tag_name = tag}

\* C6: load_dataset returns exactly the rows, in input order, that have
\* tag_position 0 and whose tag occurs at least min_samples_per_label times
\* among the tag_position 0 rows.
C6_LoadDatasetFilters ==
    ret.op = "load_dataset" =>
        LET out == ret.val
        IN  /\ Range(out) \subseteq 1..Len(file)
            /\ \A r \in 1..Len(file) :
                  r \in Range(out) <=>
                     /\ file[r].tag_position = 0
                     /\ Cardinality(RowsAtZero(file[r].tag_name)) >= min_samples_per_label
            /\ \A k \in 1..(Len(out) - 1) : out[k] < out[k + 1]

\* C6 witness: a tag reaches min_samples_per_label only when its rows with
\* another tag_position are counted, and its tag_position 0 rows are dropped
C6_Witness ==
    /\ ret.op = "load_dataset"
    /\ ret.val # <<>>
    /\ \E tag \in TagNames :
          /\ RowsAtZero(tag) # {}
          /\ Cardinality(RowsAtZero(tag)) < min_samples_per_label
          /\ Cardinality(RowsOfTag(tag)) >= min_samples_per_label
          /\ RowsAtZero(tag) \cap Range(ret.val) = {}

(***************************************************************************)
(* Properties of a file-backed dataset used by one caller                  *)
(***************************************************************************)
\* s[lo:hi] element by element: positions lo, lo+1, ... below hi and below
\* the length of s
PySlice(s, lo, hi) ==
    [p \in 1..(Min(hi, Len(s)) - lo) |-> s[lo + p]]

\* the slice [j*batch_size, (j+1)*batch_size) of a split and of its labels
SliceOfSplit(xs, ys, j) ==
    [x |-> PySlice(xs, j * batch_size, (j + 1) * batch_size),
     y |-> PySlice(ys, j * batch_size, (j + 1) * batch_size)]

\* the calls made so far returned the slices of the split in cyclic order
CyclicSlices(returned, xs, ys, n) ==
    /\ \A k \in 1..Len(returned) :
          returned[k] = SliceOfSplit(xs, ys, (k - 1) % n)
    /\ Len(returned) > n => returned[n + 1] = returned[1]

\* C2: the k-th call of get_train_batch returns the slice
\* [j*batch_size, (j+1)*batch_size) of the train split with j = (k-1) mod n,
\* n = _get_num_train_batches(); the cursor stays in [0, n); call n+1
\* returns what call 1 returned. Likewise for get_test_batch.
C2_CyclicBatches ==
    status = "ok" =>
        /\ train_batch_index \in 0..(_get_num_train_batches - 1)
        /\ test_batch_index \in 0..(_get_num_test_batches - 1)
        /\ train_batch_index = Len(train_returned) % _get_num_train_batches
        /\ test_batch_index = Len(test_returned) % _get_num_test_batches
        /\ CyclicSlices(train_returned, x_train, y_train, _get_num_train_batches)
        /\ CyclicSlices(test_returned, x_test, y_test, _get_num_test_batches)

\* C2 witness: a split of at least two batches was read past its last
\* batch, so that the wraparound call has been made
C2_Witness ==
    /\ status = "ok"
    /\ _get_num_train_batches >= 2
    /\ Len(train_returned) = _get_num_train_batches + 1

\* every batch of `returned` has batch_size samples and as many label rows,
\* each of num_labels entries
FullShape(returned) ==
    \A k \in 1..Len(returned) :
        /\ Len(returned[k].x) = batch_size
        /\ Len(returned[k].y) = Len(returned[k].x)
        /\ \A p \in 1..Len(returned[k].y) : Len(returned[k].y[p]) = get_num_labels

\* C3: every batch returned by get_train_batch or get_test_batch has x of
\* length batch_size and y of shape (batch_size, num_labels).
C3_BatchShape ==
    status = "ok" => FullShape(train_returned) /\ FullShape(test_returned)

\* C3 witness: the shapes of the tests, (2,) and (2, num_labels), with two
\* labels, on both splits
C3_Witness ==
    /\ status = "ok"
    /\ batch_size = 2
    /\ get_num_labels = 2
    /\ train_returned # <<>>
    /\ test_returned # <<>>

\* C4: the constructor ends with an assertion error whenever a batch count
\* is zero (batch_size larger than the train or the test sample count), so
\* a constructed dataset has both batch counts >= 1.
C4_ZeroBatchCountAsserts ==
    /\ (/\ status # "new" /\ LessThanOne(train_ratio) /\ batch_size # 0
        /\ (_get_num_train_batches = 0 \/ _get_num_test_batches = 0))
          => status = "AssertionError"
    /\ (/\ status # "new" /\ LessThanOne(train_ratio) /\ batch_size > 0
        /\ (batch_size > _get_num_train_samples \/ batch_size > _get_num_test_samples))
          => status = "AssertionError"
    /\ status = "ok" =>
          /\ _get_num_train_batches >= 1
          /\ _get_num_test_batches >= 1

\* C4 witness: the train split fills a batch and the test split does not,
\* and the constructor ended with an assertion error
C4_Witness ==
    /\ status = "AssertionError"
    /\ LessThanOne(train_ratio)
    /\ batch_size > 0
    /\ _get_num_train_batches >= 1
    /\ _get_num_test_batches = 0

\* the number of whole batches in `size` samples, stated without division
WholeBatches(size) ==
    CHOOSE n \in 0..size : n * batch_size <= size /\ size < (n + 1) * batch_size

\* C9 as the specification states it: slicing near the end of the split
\* yields a short final batch, i.e. where the split size is no multiple of
\* batch_size, a full cycle of calls reaches a cursor value i with
\* (i+1)*batch_size beyond the split size and returns a batch of fewer than
\* batch_size samples.
C9_ShortBatchReturned ==
    /\ (status = "ok" /\ Len(x_train) % batch_size # 0
            /\ Len(train_returned) >= _get_num_train_batches) =>
          \E k \in 1..Len(train_returned) : Len(train_returned[k].x) < batch_size
    /\ (status = "ok" /\ Len(x_test) % batch_size # 0
            /\ Len(test_returned) >= _get_num_test_batches) =>
          \E k \in 1..Len(test_returned) : Len(test_returned[k].x) < batch_size

\* C9 as amended: no cursor value a constructed dataset reaches has
\* (i+1)*batch_size beyond the split size, so no slice is cut short.
C9_SliceNeverTruncates ==
    status = "ok" =>
        /\ (train_batch_index + 1) * batch_size <= Len(x_train)
        /\ (test_batch_index + 1) * batch_size <= Len(x_test)
        /\ Len(x_train) = _get_num_train_samples
        /\ Len(x_test) = _get_num_test_samples

\* C9 witness: the train split has samples beyond its last whole batch and
\* the cursor has wrapped
C9_Witness ==
    /\ status = "ok"
    /\ Len(x_train) % batch_size # 0
    /\ Len(train_returned) > _get_num_train_batches

\* the samples at 0-based positions >= n*batch_size of a split are in no
\* returned batch; each sample below is in exactly one batch of every
\* completed cycle of n calls, once
NoRemainderBatch(returned, xs) ==
    LET n == WholeBatches(Len(xs))
        Occurrences(k, p) ==
            Cardinality({q \in 1..Len(returned[k].x) : returned[k].x[q] = xs[p]})
    IN  /\ \A k \in 1..Len(returned) : \A p \in (n * batch_size + 1)..Len(xs) :
              Occurrences(k, p) = 0
        /\ \A c \in 0..(Len(returned) \div n) - 1 : \A p \in 1..(n * batch_size) :
              /\ Cardinality({k \in (c * n + 1)..(c * n + n) : Occurrences(k, p) > 0}) = 1
              /\ \A k \in (c * n + 1)..(c * n + n) : Occurrences(k, p) <= 1

\* C10: no remainder batch: a sample at position >= num_batches*batch_size
\* of a split is never returned, a sample below is returned once per cycle
\* of num_batches calls.
C10_NoRemainderBatch ==
    status = "ok" =>
        /\ _get_num_train_batches = WholeBatches(Len(x_train))
        /\ _get_num_test_batches = WholeBatches(Len(x_test))
        /\ NoRemainderBatch(train_returned, x_train)
        /\ NoRemainderBatch(test_returned, x_test)

\* C10 witness: the train split has a sample beyond its last whole batch
\* and two cycles of calls are complete
C10_Witness ==
    /\ status = "ok"
    /\ Len(x_train) > _get_num_train_batches * batch_size
    /\ Len(train_returned) >= 2 * _get_num_train_batches

(***************************************************************************)
(* Properties of the sequences                                             *)
(***************************************************************************)
\* a step that returned an element of the sequence of split `of`
GetItemStep(which) ==
    /\ status = "ok"
    /\ ret'.op = "__getitem__"
    /\ ret'.split = which

\* an element access returns the slice at the cursor, whatever idx is, and
\* moves that cursor, and no other, one batch on, wrapping at n
AccessPullsNextBatch ==
    /\ GetItemStep("train") =>
          /\ ret'.batch = SliceOfSplit(x_train, y_train, train_batch_index)
          /\ train_batch_index' = (train_batch_index + 1) % _get_num_train_batches
          /\ test_batch_index' = test_batch_index
    /\ GetItemStep("test") =>
          /\ ret'.batch = SliceOfSplit(x_test, y_test, test_batch_index)
          /\ test_batch_index' = (test_batch_index + 1) % _get_num_test_batches
          /\ train_batch_index' = train_batch_index

\* two accesses in a row with the same idx on a split of more than one
\* batch return different batches
SameIdxDifferentBatch ==
    (/\ GetItemStep("train")
     /\ ret.op = "__getitem__"
     /\ ret.split = "train"
     /\ ret.idx = ret'.idx
     /\ _get_num_train_batches > 1) => ret'.batch # ret.batch

LenIsBatchCount ==
    (status = "ok" /\ ret.op = "__len__") =>
        ret.val = WholeBatches(IF ret.split = "train" THEN Len(x_train) ELSE Len(x_test))

\* C7: the sequence has length num_batches; accessing element idx returns
\* the batch at the current cursor and advances the cursor as one
\* get_train_batch() (get_test_batch()) call does, whatever idx is, so two
\* accesses with the same idx return consecutive batches.
C7_SequenceIgnoresIndex ==
    /\ []LenIsBatchCount
    /\ [][AccessPullsNextBatch /\ SameIdxDifferentBatch]_vars

\* C7 witness: element 0 was accessed and returned the second batch of the
\* train split
C7_Witness ==
    /\ status = "ok"
    /\ ret.op = "__getitem__"
    /\ ret.split = "train"
    /\ ret.idx = 0
    /\ _get_num_train_batches > 1
    /\ ret.batch = SliceOfSplit(x_train, y_train, 1)

(***************************************************************************)
(* Properties of two callers sharing one dataset                           *)
(***************************************************************************)
BothCalledOnce ==
    /\ status = "ok"
    /\ \A c \in Callers : pc[c] = "idle" /\ caller_calls[c] = 1

\* C8: with more than one train batch and no lock, two callers can read
\* the same cursor value; they then receive the same batch, and either the
\* cursor has advanced by one only for the two calls or the batch after the
\* one they received has been skipped.
C8_RaceOnCursor ==
    (/\ BothCalledOnce
     /\ _get_num_train_batches > 1
     /\ local_i["c1"] = local_i["c2"]) =>
        /\ caller_ret["c1"] = caller_ret["c2"]
        /\ caller_ret["c1"] = SliceOfSplit(x_train, y_train, 0)
        /\ \/ train_batch_index = 1
           \/ /\ train_batch_index = 2 % _get_num_train_batches
              /\ \A c \in Callers : caller_ret[c] # SliceOfSplit(x_train, y_train, 1)

\* C8 witness: both callers read cursor 0 and received the same batch, and
\* the cursor moved past batch 1, which nobody received
C8_Witness ==
    /\ BothCalledOnce
    /\ _get_num_train_batches > 1
    /\ local_i["c1"] = local_i["c2"]
    /\ caller_ret["c1"] = caller_ret["c2"]
    /\ train_batch_index = 2 % _get_num_train_batches

====
